---- MODULE Spec2Model ----
(***************************************************************************)
(* AETE configuration loader (config.py) and Firestore persistence gateway *)
(* (firebase_client.py) as a state machine.  Every public call is one      *)
(* atomic action: the code is synchronous and single-threaded.  Failures   *)
(* of the remote store, of the credential load and of the client factory   *)
(* are inputs of the action that makes the call.                           *)
(***************************************************************************)
EXTENDS Integers, Sequences, FiniteSets, TLC

\* ---------------------------------------------------------------- bounds
MaxInst == 2          \* gateway objects constructed in one process
MaxTrades == 2        \* trade records the remote log holds in the model
MaxVersion == 2       \* explicit version numbers a caller passes

\* ------------------------------------------------------------ value sets
None == "None"                       \* Python's None
SERVER_TIMESTAMP == "SERVER_TIMESTAMP"
Instances == 1..MaxInst
StrategyIds == {"s1"}
EmptyDict == [k \in {} |-> 0]

\* dict.get(key, default)
DictGet(d, k, default) == IF k \in DOMAIN d THEN d[k] ELSE default

\* Python truthiness of an optional string: None and "" are falsy
Truthy(v) == v \notin {None, ""}

\* DocumentReference.set(data, merge=True): fields of data overwrite, every
\* other field of the existing document is kept
MergeSet(old, data) ==
    [f \in DOMAIN old \cup DOMAIN data |->
        IF f \in DOMAIN data THEN data[f] ELSE old[f]]

\* the dicts callers pass to save_strategy: any subset of the fields a, b,
\* version (updated_at is always replaced by the server's timestamp)
OptField(k, vals) == {EmptyDict} \cup {[x \in {k} |-> v] : v \in vals}

StrategyInputs ==
    { MergeSet(MergeSet(x, y), z) :
        x \in OptField("a", {1, 2}),
        y \in OptField("b", {1}),
        z \in OptField("version", 1..MaxVersion) }

\* the dicts callers pass to log_trade
TradeInputs ==
    {[symbol |-> "BTC"]}
      \cup {[symbol |-> "BTC", strategy_id |-> s] : s \in {""} \cup StrategyIds}

\* state of the file at config.firebase_credentials_path when a call reads it
CredFileStates == {"missing", "invalid", "valid"}

\* ----------------------------------------------------------- environment
\* os.getenv values at import time; None is an unset variable
EnvNames == {None, "", "kraken"}
EnvSandbox == {None, "true", "TRUE", "false"}
EnvSecrets == {None, "k"}
Envs == [EXCHANGE_NAME : EnvNames, EXCHANGE_SANDBOX : EnvSandbox,
         EXCHANGE_API_KEY : EnvSecrets, EXCHANGE_API_SECRET : EnvSecrets]
DefaultEnv == [EXCHANGE_NAME |-> None, EXCHANGE_SANDBOX |-> None,
               EXCHANGE_API_KEY |-> None, EXCHANGE_API_SECRET |-> None]

\* os.getenv(name, default)
GetEnv(v, default) == IF v = None THEN default ELSE v

\* str.lower() on the spellings the model draws
Lower(s) == IF s = "TRUE" THEN "true" ELSE s

VARIABLES
    env,            \* the process environment read by AETEConfig.__init__
    config,         \* the global AETEConfig instance (its exchange part)
    apps,           \* firebase_admin._apps is non-empty
    registrations,  \* successful firebase_admin.initialize_app calls so far
    status,         \* per object: "unbuilt", "constructed" (__init__ returned)
                    \* or "raised" (__init__ raised; the object still exists
                    \* for whoever holds it and its methods can be called)
    db,             \* per object: self.db
    initialized,    \* per object: self._initialized
    strategies,     \* remote collection "strategies": id -> document
    trades,         \* remote collection "trades", in store-key order
    lastCall        \* the most recent call, its inputs and what it returned

vars == <<env, config, apps, registrations, status, db, initialized,
          strategies, trades, lastCall>>

gatewayVars == <<apps, registrations, status, db, initialized>>
storeVars == <<strategies, trades>>
configVars == <<env, config>>

\* ------------------------------------------------------- return values
RetBool(b) == [kind |-> "bool", val |-> b]
RetNone == [kind |-> "none"]
RetDoc(d) == [kind |-> "doc", doc |-> d]
RetOk == [kind |-> "ok"]
RetRaise == [kind |-> "raise"]

\* ------------------------------------------------------------ config.py
\* AETEConfig.__init__: the ExchangeConfig built from the environment
AETEConfigInit(e) ==
    [name |-> GetEnv(e.EXCHANGE_NAME, "binance"),
     api_key |-> GetEnv(e.EXCHANGE_API_KEY, ""),
     api_secret |-> GetEnv(e.EXCHANGE_API_SECRET, ""),
     sandbox |-> (Lower(GetEnv(e.EXCHANGE_SANDBOX, "true")) = "true")]

InitWith(e) ==
    /\ env = e
    /\ config = AETEConfigInit(e)
    /\ apps = FALSE
    /\ registrations = 0
    /\ status = [i \in Instances |-> "unbuilt"]
    /\ db = [i \in Instances |-> None]
    /\ initialized = [i \in Instances |-> FALSE]
    /\ strategies = EmptyDict
    /\ trades = <<>>
    /\ lastCall = [op |-> "import"]

Init == InitWith(DefaultEnv)

InitConfig == \E e \in Envs : InitWith(e)

\* ------------------------------------------------- firebase_client.py
\* is_connected(): self._initialized and self.db is not None
is_connected(i) == initialized[i] /\ db[i] # None

\* line 27: the credential load and app registration run only when no
\* application is registered in the process
NeedsAppInitAlways == TRUE

NeedsAppInit == ~apps

\* credentials.Certificate(path) raises unless the file is a valid certificate
\* (initialize_app with a loaded certificate and no registered app succeeds)
CertificateLoads(cred) == cred = "valid"

\* lines 36-39: the except branch of _initialize_firebase marks the object
\* disconnected and re-raises, so __init__ does not return
InitFailedSwallowed(i, cred) ==
    /\ initialized' = [initialized EXCEPT ![i] = FALSE]
    /\ status' = [status EXCEPT ![i] = "constructed"]
    /\ lastCall' = [op |-> "construct", inst |-> i, cred |-> cred,
                    appsBefore |-> apps, ret |-> RetOk]

InitFailed(i, cred) ==
    /\ initialized' = [initialized EXCEPT ![i] = FALSE]
    /\ status' = [status EXCEPT ![i] = "raised"]
    /\ lastCall' = [op |-> "construct", inst |-> i, cred |-> cred,
                    appsBefore |-> apps, ret |-> RetRaise]

\* FirebaseClient(): __init__ and _initialize_firebase.  cred is the state
\* of the credentials file, clientOk whether firestore.client() succeeds.
\* Objects are numbered in the order they are constructed.
Construct(i, cred, clientOk) ==
    /\ status[i] = "unbuilt"
    /\ \A j \in Instances : j < i => status[j] # "unbuilt"
    /\ UNCHANGED <<configVars, storeVars>>
    /\ IF NeedsAppInit /\ ~CertificateLoads(cred)
       THEN \* Certificate() raised before anything was registered
            /\ InitFailed(i, cred)
            /\ UNCHANGED <<apps, registrations, db>>
       ELSE /\ apps' = TRUE
            /\ registrations' = IF NeedsAppInit THEN registrations + 1
                                               ELSE registrations
            /\ IF clientOk
               THEN /\ db' = [db EXCEPT ![i] = "client"]
                    /\ initialized' = [initialized EXCEPT ![i] = TRUE]
                    /\ status' = [status EXCEPT ![i] = "constructed"]
                    /\ lastCall' = [op |-> "construct", inst |-> i,
                                    cred |-> cred, appsBefore |-> apps,
                                    ret |-> RetOk]
               ELSE \* firestore.client() raised: the app stays registered
                    /\ InitFailed(i, cred)
                    /\ UNCHANGED db

\* is_connected() called by a user of the object
IsConnected(i) ==
    /\ status[i] # "unbuilt"
    /\ lastCall' = [op |-> "is_connected", ret |-> RetBool(is_connected(i))]
    /\ UNCHANGED <<configVars, gatewayVars, storeVars>>

\* --- Strategy Management ---
\* lines 55-56: the caller's dict gets the server-timestamp sentinel and a
\* version, 1 unless the dict already carries one
StampStrategy(data) ==
    MergeSet(data, [updated_at |-> SERVER_TIMESTAMP,
                    version |-> DictGet(data, "version", 1)])

\* lines 62-64: any exception inside the try block is logged and becomes False
SaveExceptPropagates(i, sid, data) ==
    /\ lastCall' = [op |-> "save_strategy", connected |-> TRUE,
                    failed |-> TRUE, ret |-> RetRaise]
    /\ UNCHANGED <<gatewayVars, storeVars>>

SaveExceptDisconnects(i, sid, data) ==
    /\ lastCall' = [op |-> "save_strategy", connected |-> TRUE,
                    failed |-> TRUE, ret |-> RetBool(FALSE)]
    /\ initialized' = [initialized EXCEPT ![i] = FALSE]
    /\ UNCHANGED <<apps, registrations, status, db, storeVars>>

SaveExcept(i, sid, data) ==
    /\ lastCall' = [op |-> "save_strategy", connected |-> TRUE,
                    failed |-> TRUE, ret |-> RetBool(FALSE)]
    /\ UNCHANGED <<gatewayVars, storeVars>>

\* save_strategy(strategy_id, strategy_data); remoteOk is whether the
\* remote set() succeeds
SaveStrategy(i, sid, data, remoteOk) ==
    /\ status[i] # "unbuilt"
    /\ UNCHANGED configVars
    /\ IF ~is_connected(i)
       THEN /\ lastCall' = [op |-> "save_strategy", connected |-> FALSE,
                            failed |-> FALSE, ret |-> RetBool(FALSE)]
            /\ UNCHANGED <<gatewayVars, storeVars>>
       ELSE IF ~remoteOk
       THEN SaveExcept(i, sid, data)
       ELSE /\ strategies' =
                [k \in DOMAIN strategies \cup {sid} |->
                    IF k = sid
                    THEN MergeSet(DictGet(strategies, sid, EmptyDict),
                                  StampStrategy(data))
                    ELSE strategies[k]]
            /\ lastCall' = [op |-> "save_strategy", connected |-> TRUE,
                            failed |-> FALSE, sid |-> sid, data |-> data,
                            ret |-> RetBool(TRUE)]
            /\ UNCHANGED <<gatewayVars, trades>>

\* lines 75-79: the snapshot's dict when the document exists, else None
GetResultEmptyDoc(sid) ==
    IF sid \in DOMAIN strategies THEN RetDoc(strategies[sid])
                                 ELSE RetDoc(EmptyDict)

GetResult(sid) ==
    IF sid \in DOMAIN strategies THEN RetDoc(strategies[sid]) ELSE RetNone

\* get_strategy(strategy_id); remoteOk is whether the remote get() succeeds
GetStrategy(i, sid, remoteOk) ==
    /\ status[i] # "unbuilt"
    /\ UNCHANGED <<configVars, gatewayVars, storeVars>>
    /\ lastCall' =
         [op |-> "get_strategy", connected |-> is_connected(i),
          failed |-> (is_connected(i) /\ ~remoteOk), sid |-> sid,
          ret |-> IF ~is_connected(i) THEN RetNone
                  ELSE IF ~remoteOk THEN RetNone   \* lines 81-83
                  ELSE GetResult(sid)]

\* --- Performance Metrics ---
\* lines 94-95: the log timestamp sentinel and the schema tag
StampTrade(td) ==
    MergeSet(td, [logged_at |-> SERVER_TIMESTAMP,
                  ecosystem_version |-> "aete_v1"])

\* line 99, CollectionReference.add: a new document under a key the store
\* generates; the position in the log stands for that key
TradesAddFixedKey(log, rec) ==
    IF log = <<>> THEN <<rec>> ELSE [log EXCEPT ![Len(log)] = rec]

TradesAdd(log, rec) == Append(log, rec)

\* lines 102-103: the hook runs when trade_data.get("strategy_id") is truthy
HookInvokedNever(sid) == FALSE

HookInvoked(sid) == Truthy(sid)

\* lines 98-104: the remote calls a connected log_trade makes after a
\* successful add, in program order
LogTradeCalls(td) ==
    LET strategy_id == DictGet(td, "strategy_id", None)
    IN  IF HookInvoked(strategy_id)
        THEN << <<"trades.add">>,
                <<"_update_strategy_performance", strategy_id>> >>
        ELSE << <<"trades.add">> >>

\* _update_strategy_performance(strategy_id, trade_data): its body is not in
\* the source; a collaborator that either returns or raises
UpdateStrategyPerformanceRaises(hookOk) == ~hookOk

\* the end of log_trade is not in the source: True after the try block ran,
\* False from the handler that catches whatever the try block raised
LogTradeReturn(raised) == RetBool(~raised)

\* log_trade(trade_data); addOk is whether the remote add() succeeds, hookOk
\* whether the performance update returns
LogTrade(i, td, addOk, hookOk) ==
    /\ status[i] # "unbuilt"
    /\ Len(trades) < MaxTrades
    /\ UNCHANGED <<configVars, gatewayVars, strategies>>
    /\ IF ~is_connected(i)
       THEN /\ lastCall' = [op |-> "log_trade", connected |-> FALSE,
                            failed |-> FALSE, added |-> FALSE,
                            ret |-> RetBool(FALSE)]
            /\ UNCHANGED trades
       ELSE IF ~addOk
       THEN /\ lastCall' = [op |-> "log_trade", connected |-> TRUE,
                            failed |-> TRUE, added |-> FALSE,
                            ret |-> LogTradeReturn(TRUE)]
            /\ UNCHANGED trades
       ELSE LET calls == LogTradeCalls(td)
                raised == /\ Len(calls) = 2
                          /\ UpdateStrategyPerformanceRaises(hookOk)
            IN  /\ trades' = TradesAdd(trades, StampTrade(td))
                /\ lastCall' = [op |-> "log_trade", connected |-> TRUE,
                                failed |-> raised, added |-> TRUE,
                                td |-> td, calls |-> calls,
                                ret |-> LogTradeReturn(raised)]

\* ------------------------------------------------------------ config.py
\* ExchangeConfig.validate: False exactly when the name is empty
ExchangeValidateAlwaysTrue(ex) == TRUE

ExchangeValidate(ex) == ex.name # ""

\* what ExchangeConfig.validate logs
ExchangeValidateLog(ex) ==
    IF ex.name = "" THEN <<"Exchange name required">>
    ELSE IF ~ex.sandbox /\ (ex.api_key = "" \/ ex.api_secret = "")
    THEN <<"Live trading requires API keys">>
    ELSE <<>>

\* lines 93-96: both checks are evaluated while the list is built
Validations(ex, cred) ==
    << <<"Exchange config", ExchangeValidate(ex)>>,
       <<"Firebase credentials", cred # "missing">> >>

\* lines 98-102: the names of the failed checks, in the order they are logged
RECURSIVE FailedNames(_)
FailedNames(vs) ==
    IF vs = <<>> THEN <<>>
    ELSE (IF vs[1][2] THEN <<>> ELSE <<vs[1][1]>>) \o FailedNames(Tail(vs))

\* AETEConfig.validate(); cred is the state of the credentials file
Validate(cred) ==
    /\ lastCall' =
         [op |-> "validate", cred |-> cred,
          log |-> ExchangeValidateLog(config),
          failures |-> FailedNames(Validations(config, cred)),
          ret |-> RetBool(FailedNames(Validations(config, cred)) = <<>>)]
    /\ UNCHANGED <<configVars, gatewayVars, storeVars>>

\* ------------------------------------------------------- specifications
Next ==
    \/ \E i \in Instances, cred \in CredFileStates, clientOk \in BOOLEAN :
          Construct(i, cred, clientOk)
    \/ \E i \in Instances : IsConnected(i)
    \/ \E i \in Instances, sid \in StrategyIds, data \in StrategyInputs,
          remoteOk \in BOOLEAN : SaveStrategy(i, sid, data, remoteOk)
    \/ \E i \in Instances, sid \in StrategyIds, remoteOk \in BOOLEAN :
          GetStrategy(i, sid, remoteOk)
    \/ \E i \in Instances, td \in TradeInputs, addOk \in BOOLEAN,
          hookOk \in BOOLEAN : LogTrade(i, td, addOk, hookOk)
    \/ \E cred \in CredFileStates : Validate(cred)

Spec == Init /\ [][Next]_vars

\* the configuration loader alone, over every environment of the model
NextConfig == \E cred \in CredFileStates : Validate(cred)

SpecConfig == InitConfig /\ [][NextConfig]_vars

\* ----------------------------------------------------------------- claims
GatewayOps == {"save_strategy", "get_strategy", "log_trade"}

\* C1: on a connected gateway save_strategy, get_strategy and log_trade never
\* raise; a failed remote call (or a raising performance hook) yields False
\* from save_strategy and log_trade and None from get_strategy.
C1_NoExceptionEscapes ==
    (lastCall.op \in GatewayOps /\ lastCall.connected) =>
        /\ lastCall.ret.kind # "raise"
        /\ lastCall.failed =>
             IF lastCall.op = "get_strategy" THEN lastCall.ret = RetNone
                                             ELSE lastCall.ret = RetBool(FALSE)

C1_Witness ==
    /\ lastCall.op = "save_strategy"
    /\ lastCall.connected
    /\ lastCall.failed
    /\ lastCall.ret = RetBool(FALSE)

SavedOk(c) == c.op = "save_strategy" /\ c.ret = RetBool(TRUE)

\* C2: two successful save_strategy calls on one id with disjoint caller
\* field sets leave a document holding every field of both calls with the
\* value that call passed.
C2_UnionOfDisjointSaves ==
    [][(/\ SavedOk(lastCall) /\ SavedOk(lastCall')
        /\ lastCall.sid = lastCall'.sid
        /\ DOMAIN lastCall.data \cap DOMAIN lastCall'.data = {})
       => LET doc == strategies'[lastCall'.sid]
          IN  /\ \A f \in DOMAIN lastCall.data :
                    f \in DOMAIN doc /\ doc[f] = lastCall.data[f]
              /\ \A f \in DOMAIN lastCall'.data :
                    f \in DOMAIN doc /\ doc[f] = lastCall'.data[f]]_vars

\* C3: a successful save_strategy whose data omits version stores version 1
\* on the first save of the id and otherwise leaves the stored version as it
\* was (the value last explicitly set).
C3_VersionKept ==
    [][(SavedOk(lastCall') /\ "version" \notin DOMAIN lastCall'.data)
       => LET sid == lastCall'.sid
          IN  IF sid \notin DOMAIN strategies
              THEN strategies'[sid]["version"] = 1
              ELSE strategies'[sid]["version"] = strategies[sid]["version"]]_vars

Constructed(c) == c.op = "construct"

\* C4 as stated: every construction that finds the credentials file missing
\* or invalid raises.
C4_BadCredentialsAlwaysRaise ==
    (Constructed(lastCall) /\ lastCall.cred # "valid") =>
        lastCall.ret = RetRaise

\* C4 as amended: a construction that finds no application registered and
\* the credentials file missing or invalid raises; a construction that
\* returns normally always yields a connected object.
C4_BadCredentialsRaiseOnFirstInit ==
    /\ (Constructed(lastCall) /\ ~lastCall.appsBefore
          /\ lastCall.cred # "valid") => lastCall.ret = RetRaise
    /\ (Constructed(lastCall) /\ lastCall.ret = RetOk) =>
          (is_connected(lastCall.inst)
             /\ status[lastCall.inst] = "constructed")
    /\ \A i \in Instances : status[i] = "constructed" => is_connected(i)

C4_Witness ==
    /\ Constructed(lastCall)
    /\ ~lastCall.appsBefore
    /\ lastCall.cred = "missing"
    /\ lastCall.ret = RetRaise
    /\ status[lastCall.inst] = "raised"

\* C5: a log_trade call that returns True appended the trade; it called the
\* performance hook exactly once, after the add and with the payload's
\* strategy id, when the payload carries one, and not at all otherwise.
C5_HookOnceIffStrategyId ==
    (lastCall.op = "log_trade" /\ lastCall.ret = RetBool(TRUE)) =>
        /\ Len(trades) >= 1
        /\ \A k \in DOMAIN lastCall.td :
              trades[Len(trades)][k] = lastCall.td[k]
        /\ IF "strategy_id" \in DOMAIN lastCall.td
               /\ lastCall.td["strategy_id"] \in StrategyIds
           THEN lastCall.calls =
                  << <<"trades.add">>,
                     <<"_update_strategy_performance",
                       lastCall.td["strategy_id"]>> >>
           ELSE lastCall.calls = << <<"trades.add">> >>

C5_Witness ==
    /\ lastCall.op = "log_trade"
    /\ lastCall.ret = RetBool(TRUE)
    /\ "strategy_id" \in DOMAIN lastCall.td
    /\ lastCall.td["strategy_id"] = "s1"
    /\ Len(lastCall.calls) = 2

C6_Result ==
    lastCall.op = "get_strategy" =>
        /\ lastCall.ret.kind \in {"none", "doc"}
        /\ ~lastCall.connected => lastCall.ret = RetNone
        /\ lastCall.sid \notin DOMAIN strategies => lastCall.ret = RetNone
        /\ lastCall.ret.kind = "doc" =>
              /\ lastCall.connected
              /\ lastCall.sid \in DOMAIN strategies
              /\ lastCall.ret.doc = strategies[lastCall.sid]

\* C6: get_strategy returns None for an id never saved and on a disconnected
\* gateway, returns the stored document only when connected and the document
\* exists, and leaves both collections as they were.
C6_GetAbsentOrStored ==
    /\ []C6_Result
    /\ [][lastCall'.op = "get_strategy" => UNCHANGED storeVars]_vars

C6_Witness ==
    /\ lastCall.op = "get_strategy"
    /\ lastCall.connected
    /\ ~lastCall.failed
    /\ lastCall.sid \notin DOMAIN strategies
    /\ lastCall.ret = RetNone

Added(c) == c.op = "log_trade" /\ c.added

\* C7: every step keeps the existing trade records in place; a log_trade
\* whose add succeeded puts exactly one record after them, and no other call
\* changes the collection.
C7_TradesAppendOnly ==
    [][/\ Len(trades') >= Len(trades)
       /\ SubSeq(trades', 1, Len(trades)) = trades
       /\ Len(trades') = Len(trades) + (IF Added(lastCall') THEN 1 ELSE 0)]_vars

C7_Witness ==
    /\ Added(lastCall)
    /\ Len(trades) = 2
    /\ trades[1] # trades[2]

InSeq(x, seq) == \E k \in DOMAIN seq : seq[k] = x

\* C8: validate() on a config with an empty exchange name reports "Exchange
\* config" as failed and returns False without raising, and reports the
\* credentials check in the same call exactly when the file is missing.
C8_EmptyNameFails ==
    (lastCall.op = "validate" /\ config.name = "") =>
        /\ lastCall.ret = RetBool(FALSE)
        /\ InSeq("Exchange config", lastCall.failures)
        /\ InSeq("Firebase credentials", lastCall.failures)
             <=> (lastCall.cred = "missing")

C8_Witness ==
    /\ lastCall.op = "validate"
    /\ config.name = ""
    /\ lastCall.cred = "missing"
    /\ lastCall.failures = <<"Exchange config", "Firebase credentials">>

\* C9: the application is registered at most once however many gateways are
\* constructed; once one is registered no construction registers again.
C9_RegisteredAtMostOnce ==
    /\ [](registrations <= 1)
    /\ [][apps => (apps' /\ registrations' = registrations)]_vars
    /\ [][registrations' # registrations =>
            (Constructed(lastCall') /\ ~lastCall'.appsBefore)]_vars

C9_Witness ==
    /\ Constructed(lastCall)
    /\ lastCall.appsBefore
    /\ lastCall.ret = RetOk
    /\ registrations = 1

\* C10: save_strategy, get_strategy, log_trade and is_connected leave db and
\* _initialized of every object alone; an object's connection state changes
\* only in its own construction; an object whose construction returned is
\* connected ever after.
C10_ConnectionStateFrame ==
    /\ [](\A i \in Instances : status[i] = "constructed" => is_connected(i))
    /\ [][lastCall'.op \in GatewayOps \cup {"is_connected"} =>
            UNCHANGED <<db, initialized, status>>]_vars
    /\ [][\A i \in Instances :
            (db'[i] # db[i] \/ initialized'[i] # initialized[i]) =>
               (Constructed(lastCall') /\ lastCall'.inst = i)]_vars

C10_Witness ==
    /\ lastCall.op = "log_trade"
    /\ lastCall.connected
    /\ lastCall.failed
    /\ \E i \in Instances : status[i] = "constructed" /\ is_connected(i)

====
